---- MODULE Spec2Model ----
(***************************************************************************)
(* The typing-test engine of src/src/main.rs: the word queue, the typed    *)
(* buffers, the cursor, the session clock, the live WPM sample, the final  *)
(* metrics and the results store, driven by the tick loop of main().       *)
(*                                                                         *)
(* Words are sequences of one-character strings.  Instants are modelled by *)
(* their age: start_time and last_wpm_update hold None or Some(age), the   *)
(* number of clock units elapsed since the instant was taken.  An f64 is   *)
(* modelled by                                                             *)
(* the exact fraction <<numerator, denominator>>.                          *)
(***************************************************************************)
EXTENDS Integers, Sequences, FiniteSets, TLC

\* ------------------------------------------------------------------ bounds
MaxNumWords == 2      \* default_test_length ranges over 1..MaxNumWords
MaxTimeLimit == 1     \* default_time_limit ranges over 1..MaxTimeLimit (seconds)
UnitsPerSec == 1      \* clock units per second
MaxTyped == 2         \* bytes of the characters typed in one run of main()
MaxQueue == 11        \* the queue is not replenished beyond this length
MaxSessions == 2      \* results appended in one run of main()
MaxWidth == 5         \* terminal widths: 1..MaxWidth, and as many from BoxMinWidth up
MaxHeight == 5        \* terminal heights: 4..MaxHeight

\* The clock stops being advanced once the start instant is this old.
MaxAge == MaxTimeLimit * UnitsPerSec

\* ------------------------------------------------------- program constants
PoolRounds == 10        \* main.rs:82   for _ in 0..10
ReplenishMargin == 10   \* main.rs:414  len - cursor < 10
ReplenishBatch == 20    \* main.rs:415  choose_multiple(&mut rng, 20)
BoxMinWidth == 40       \* main.rs:241  .max(40.0)

\* ----------------------------------------------------------------- helpers
Min(a, b) == IF a < b THEN a ELSE b

\* The characters of the word lists.
Alphabet == {"a", "b"}

\* A character whose UTF-8 encoding takes two bytes, such as U+00E9.
TwoByteChar == "e-acute"

\* Characters a key event can carry (KeyCode::Char(c), c not a space).
KeyChars == Alphabet \cup {TwoByteChar}

\* char::len_utf8
len_utf8(c) == IF c = TwoByteChar THEN 2 ELSE 1

\* String::len: the number of bytes of the UTF-8 encoding, while .chars()
\* yields Len(s) characters.
RECURSIVE ByteLen(_)
ByteLen(s) == IF s = <<>> THEN 0 ELSE len_utf8(Head(s)) + ByteLen(Tail(s))

\* The word lists selected by word_list_difficulty (main.rs:68-72).
EASY_WORDS == << <<"a", "b", "a", "b">> >>
MEDIUM_WORDS == << <<"a">>, <<"b">> >>
HARD_WORDS == << <<"b">> >>

Difficulties == {"Easy", "Medium", "Hard"}

GameModes == {"Words", "Time"}

CurrentWordList(difficulty) ==
    CASE difficulty = "Easy" -> EASY_WORDS
      [] difficulty = "Medium" -> MEDIUM_WORDS
      [] difficulty = "Hard" -> HARD_WORDS

\* rand's slice.choose_multiple(rng, amount): min(amount, len) elements of the
\* slice, without repetition, in random order; every outcome is possible.
ChooseMultiple(list, amount) ==
    LET n == Min(amount, Len(list))
        picks == {f \in [1..n -> 1..Len(list)] :
                     \A i, j \in 1..n : i # j => f[i] # f[j]}
    IN  {[i \in 1..n |-> list[f[i]]] : f \in picks}

\* The Time-mode pool: `rounds` independent permutations of the whole list.
RECURSIVE WordPool(_, _)
WordPool(list, rounds) ==
    IF rounds = 0 THEN {<<>>}
    ELSE {p \o q : p \in WordPool(list, rounds - 1),
                   q \in ChooseMultiple(list, Len(list))}

\* vec![String::new(); n]
EmptyBuffers(n) == [i \in 1..n |-> <<>>]

\* Mutant of Resize: the buffers are not resized after a replenish.
ResizeForgotten(buffers, n) == buffers

\* user_typed_words.resize(n, String::new()) for n >= Len(buffers)
Resize(buffers, n) ==
    [i \in 1..n |-> IF i <= Len(buffers) THEN buffers[i] ELSE <<>>]

\* Option<Instant>
None == <<>>
Some(age) == <<age>>

RECURSIVE GCD(_, _)
GCD(a, b) == IF b = 0 THEN a ELSE GCD(b, a % b)

\* The f64 value n / d (d > 0) as a fraction in lowest terms.
Frac(n, d) == LET g == GCD(n, d) IN <<n \div g, d \div g>>

Zero == <<0, 1>>

\* --------------------------------------------------------------- metrics
\* typed.chars().zip(original.chars()).filter(|(a, b)| a == b).count()
MatchCount(typed, original) ==
    Cardinality({k \in 1..Min(Len(typed), Len(original)) : typed[k] = original[k]})

\* The fold body of main.rs:476-485: mismatches among the zipped characters,
\* plus typed.len() - original.len(), a difference of byte lengths, when it is
\* positive.
MismatchCount(typed, original) ==
    Cardinality({k \in 1..Min(Len(typed), Len(original)) : typed[k] # original[k]})
    + (IF ByteLen(typed) > ByteLen(original)
       THEN ByteLen(typed) - ByteLen(original) ELSE 0)

\* Matching characters of the first n (buffer, word) pairs.
RECURSIVE CorrectUpTo(_, _, _)
CorrectUpTo(buffers, queue, n) ==
    IF n = 0 THEN 0
    ELSE CorrectUpTo(buffers, queue, n - 1) + MatchCount(buffers[n], queue[n])

\* Mismatching and overflowing characters of the first n (buffer, word) pairs.
RECURSIVE IncorrectUpTo(_, _, _)
IncorrectUpTo(buffers, queue, n) ==
    IF n = 0 THEN 0
    ELSE IncorrectUpTo(buffers, queue, n - 1) + MismatchCount(buffers[n], queue[n])

\* The live sample counts matches over every (buffer, word) pair.
LiveCorrect(buffers, queue) ==
    CorrectUpTo(buffers, queue, Min(Len(buffers), Len(queue)))

\* .take(current_word_index + 1) of the zipped pairs
Counted(buffers, queue, cursor) ==
    Min(cursor + 1, Min(Len(buffers), Len(queue)))

FinalCorrect(buffers, queue, cursor) ==
    CorrectUpTo(buffers, queue, Counted(buffers, queue, cursor))

FinalIncorrect(buffers, queue, cursor) ==
    IncorrectUpTo(buffers, queue, Counted(buffers, queue, cursor))

\* wpm = ((correct / elapsed_seconds) * 60) / 5, or 0 when elapsed_seconds is 0
\* (an instant less than one clock unit old reads as 0 seconds).
LiveWpm(correct, start) ==
    IF start = None \/ start = Some(0) THEN Zero
    ELSE Frac(correct * 60 * UnitsPerSec, start[1] * 5)

\* Mutant of FinalWpm: the elapsed time is the duration in Time mode as well.
FinalWpmElapsed(mode, limit, start, correct) ==
    IF start = None \/ start = Some(0) THEN Zero
    ELSE Frac(correct * 60 * UnitsPerSec, 5 * start[1])

\* (correct / 5) / (duration / 60) with the mode's duration, or 0 when it is 0.
FinalWpm(mode, limit, start, correct) ==
    IF mode = "Time"
    THEN (IF limit > 0 THEN Frac(correct * 60, 5 * limit) ELSE Zero)
    ELSE (IF start = None \/ start = Some(0) THEN Zero
          ELSE Frac(correct * 60 * UnitsPerSec, 5 * start[1]))

\* Mutant of Accuracy: nothing typed reads as nothing right.
AccuracyOfNothingZero(correct, incorrect) ==
    IF correct + incorrect = 0 THEN Zero
    ELSE Frac(correct * 100, correct + incorrect)

Accuracy(correct, incorrect) ==
    IF correct + incorrect = 0 THEN <<100, 1>>
    ELSE Frac(correct * 100, correct + incorrect)

\* ------------------------------------------------------------------ layout
\* The frame is a function of the terminal size read in the tick
\* (terminal::size, main.rs:119), of config.layout_theme and of the session.
\* The sizes below are those for which the u16 subtractions of the frame
\* (start_y - 2, width - box_width) do not pass below 0.
LayoutThemes == {"Default", "Boxes"}

U16 == 65536

DefaultSizes == (1..MaxWidth) \X (4..MaxHeight)

BoxesSizes == (BoxMinWidth..BoxMinWidth + MaxWidth) \X (4..MaxHeight)

\* words_to_type.join(" ").len() as u16
RECURSIVE JoinedLen(_)
JoinedLen(queue) ==
    IF queue = <<>> THEN 0
    ELSE IF Len(queue) = 1 THEN Len(queue[1])
    ELSE Len(Head(queue)) + 1 + JoinedLen(Tail(queue))

TextWidth(queue) == JoinedLen(queue) % U16

\* (width.saturating_sub(text_width)) / 2
StartX(width, queue) ==
    (IF width > TextWidth(queue) THEN width - TextWidth(queue) ELSE 0) \div 2

\* height / 2
StartY(height) == height \div 2

\* (width as f32 * 0.8).max(40.0) as u16
BoxWidth(width) ==
    IF (4 * width) \div 5 > BoxMinWidth THEN (4 * width) \div 5 ELSE BoxMinWidth

\* (width - box_width) / 2
BoxStartX(width) == (width - BoxWidth(width)) \div 2

\* The sizes terminal::size() reports, from 1 x 1 up to the bounds.
TerminalSizes == (1..BoxMinWidth + MaxWidth) \X (1..MaxHeight)

\* The outcomes of a - b on u16.  When a < b the subtraction overflows: a build
\* with overflow checks (the dev profile) panics, one without (the release
\* profile) wraps modulo 2^16.
SubU16(a, b) ==
    IF a >= b
    THEN {[kind |-> "exact", value |-> a - b]}
    ELSE {[kind |-> "panic", value |-> 0],
          [kind |-> "wrapped", value |-> (a - b + U16) % U16]}

\* let box_start_x = (width - box_width) / 2, for any width.
BoxStartXOutcomes(width) ==
    {[kind |-> o.kind, value |-> o.value \div 2] : o \in SubU16(width, BoxWidth(width))}

\* The row of the top bar, start_y - 2, for any height.
TopBarYOutcomes(height) == SubU16(StartY(height), 2)

TextAreaStartX(width) == BoxStartX(width) + 2

TextAreaWidth(width) == BoxWidth(width) - 4

\* main_box_start_y + 1 with main_box_start_y = wpm_box_start_y + 4 = 6
TextAreaStartY == 7

\* main_box_start_y = wpm_box_start_y + 4 with wpm_box_start_y = 2
MainBoxStartY == 6

\* <<temp_x, num_lines>> after the dry-run wrap pass (main.rs:275-284) has run
\* for the first n words.
RECURSIVE DryRun(_, _, _)
DryRun(queue, n, text_area_width) ==
    IF n = 0 THEN <<0, 1>>
    ELSE LET before == DryRun(queue, n - 1, text_area_width)
             at == IF before[1] + Len(queue[n]) > text_area_width
                   THEN <<0, before[2] + 1>> ELSE before
         IN  <<at[1] + Len(queue[n]) + 1, at[2]>>

\* Mutant of NumLines: the line count starts at 0.
NumLinesFromZero(queue, width) ==
    DryRun(queue, Len(queue), TextAreaWidth(width))[2] - 1

\* num_lines
NumLines(queue, width) == DryRun(queue, Len(queue), TextAreaWidth(width))[2]

\* main_box_height = num_lines + 1
MainBoxHeight(queue, width) == NumLines(queue, width) + 1

\* The row of the bottom border: main_box_start_y + main_box_height + 1
MainBoxBottomY(queue, width) == MainBoxStartY + MainBoxHeight(queue, width) + 1

\* The wrap test at the head of the placement loops, applied at <<x, y>> to a
\* word of the given length: the line starts at x0 and ends at limit, and a new
\* line is dy rows down.
Wrapped(pos, word_len, x0, limit, dy) ==
    IF pos[1] + word_len > limit THEN <<x0, pos[2] + dy>> ELSE pos

\* <<x, y>> after the loop body has run for the first n words:
\* wrap test, then x += word_len + 1.
RECURSIVE AfterWords(_, _, _, _, _, _)
AfterWords(queue, n, x0, y0, limit, dy) ==
    IF n = 0 THEN <<x0, y0>>
    ELSE LET at == Wrapped(AfterWords(queue, n - 1, x0, y0, limit, dy),
                           Len(queue[n]), x0, limit, dy)
         IN  <<at[1] + Len(queue[n]) + 1, at[2]>>

\* Where the rendering loop prints the first character of the word at index i
\* (0-based): the wrap test is applied to that word as well.
GlyphOrigin(queue, i, x0, y0, limit, dy) ==
    Wrapped(AfterWords(queue, i, x0, y0, limit, dy), Len(queue[i + 1]), x0, limit, dy)

\* The cursor coordinate: the loop runs over .take(current_word_index) only,
\* then cursor_x = x + user_typed_words[current_word_index].len().
CursorCoordinate(queue, buffers, cursor, x0, y0, limit, dy) ==
    LET at == AfterWords(queue, cursor, x0, y0, limit, dy)
    IN  <<at[1] + ByteLen(buffers[cursor + 1]), at[2]>>

\* The two layouts' glyph origin of word i and cursor coordinate for a
\* terminal of the given size.
LayoutGlyphOrigin(theme, size, queue, i) ==
    IF theme = "Default"
    THEN GlyphOrigin(queue, i, StartX(size[1], queue), StartY(size[2]), size[1], 2)
    ELSE GlyphOrigin(queue, i, TextAreaStartX(size[1]), TextAreaStartY,
                     TextAreaStartX(size[1]) + TextAreaWidth(size[1]), 1)

LayoutCursor(theme, size, queue, buffers, cursor) ==
    IF theme = "Default"
    THEN CursorCoordinate(queue, buffers, cursor, StartX(size[1], queue),
                          StartY(size[2]), size[1], 2)
    ELSE CursorCoordinate(queue, buffers, cursor, TextAreaStartX(size[1]),
                          TextAreaStartY, TextAreaStartX(size[1]) + TextAreaWidth(size[1]), 1)

LayoutSizes(theme) == IF theme = "Default" THEN DefaultSizes ELSE BoxesSizes

\* ------------------------------------------------------------ glyph colours
\* The colours of the frame: config.color_theme.correct, .incorrect and
\* .default, and Color::DarkGrey ("muted").
\* The colour set before the target character at position k (1-based) of a
\* word is printed (main.rs:182-200 and 222-231; 311-322 and 333-341).  The
\* test char_i < typed_text.len() compares with the byte length, and
\* typed_text.chars().nth(char_i).unwrap() panics when the buffer has fewer
\* characters than that: "panic" stands for the frame stopping there.
GlyphColor(active, typed_text, word, k) ==
    IF active
    THEN (IF k <= ByteLen(typed_text)
          THEN (IF k > Len(typed_text) THEN "panic"
                ELSE IF typed_text[k] = word[k] THEN "correct" ELSE "incorrect")
          ELSE "default")
    ELSE (IF k <= ByteLen(typed_text)
          THEN (IF k > Len(typed_text) THEN "panic"
                ELSE IF typed_text[k] = word[k] THEN "correct" ELSE "incorrect")
          ELSE "muted")

\* The rendering loop panics on some target character of some word: at a
\* position k of the word with chars().count() < k <= len() of its buffer,
\* whether the word is the active one or not.
RenderPanics(queue, buffers) ==
    \E i \in 1..Len(queue) :
        /\ buffers[i] # <<>>
        /\ Len(buffers[i]) < Len(queue[i])
        /\ Len(buffers[i]) < ByteLen(buffers[i])

\* What is printed for the word whose first character goes to origin: its
\* target characters, and for the active word the typed characters beyond its
\* length (main.rs:205-219, 324-329).
WordPrints(origin, word, typed_text, active) ==
    {[x |-> origin[1] + k - 1, y |-> origin[2], char |-> word[k],
      color |-> GlyphColor(active, typed_text, word, k)] : k \in 1..Len(word)}
    \cup
    (IF active /\ ByteLen(typed_text) > Len(word)
     THEN {[x |-> origin[1] + Len(word) + j - 1, y |-> origin[2],
            char |-> typed_text[Len(word) + j], color |-> "incorrect"] :
              j \in 1..Len(typed_text) - Len(word)}
     ELSE {})

\* Everything the rendering loop prints for the words of the queue.
FramePrints(theme, size, queue, buffers, cursor) ==
    UNION {WordPrints(LayoutGlyphOrigin(theme, size, queue, i - 1), queue[i],
                      buffers[i], i - 1 = cursor) : i \in 1..Len(queue)}

\* ------------------------------------------------------------------ state
VARIABLES
    config,             \* game_mode, default_test_length, default_time_limit,
                        \* word_list_difficulty, restart_button
    results,            \* config.results: key -> sequence of TestResult
    running,            \* the AtomicBool cleared by the Ctrl-C handler and by Esc in review
    phase,              \* "Running", "Review", "Exited" (main returned Ok) or
                        \* "Failed" (main returned Err, or panicked)
    ended,              \* which break left the tick loop of the current session
    words_to_type,
    user_typed_words,
    current_word_index,
    start_time,
    last_wpm_update,
    wpm,
    typed,              \* bytes of the characters typed so far in this run
    terminal            \* raw_mode and alternate_screen of the terminal

vars == <<config, results, running, phase, ended, words_to_type, user_typed_words,
          current_word_index, start_time, last_wpm_update, wpm, typed, terminal>>

session == <<words_to_type, user_typed_words, current_word_index, start_time,
             last_wpm_update, wpm>>

\* format!("words_{}_{:?}", ..) / format!("time_{}_{:?}", ..)
ResultKey(c) ==
    IF c.game_mode = "Words"
    THEN <<"words", c.default_test_length, c.word_list_difficulty>>
    ELSE <<"time", c.default_time_limit, c.word_list_difficulty>>

\* The queues a new session can draw (main.rs:74-88).
NewQueues(c) ==
    IF c.game_mode = "Words"
    THEN ChooseMultiple(CurrentWordList(c.word_list_difficulty), c.default_test_length)
    ELSE WordPool(CurrentWordList(c.word_list_difficulty), PoolRounds)

\* The queues the restart key can draw (main.rs:442-445), in either mode.
RestartQueues(c) ==
    ChooseMultiple(CurrentWordList(c.word_list_difficulty), c.default_test_length)

\* Time-mode sessions are explored with the one-word list, whose pool is one
\* queue and whose restart queue is the same for every test length; the time
\* limit, which Words mode never reads, is 1 there.
TimeDifficulties == {"Easy"}

Configs ==
    {c \in [game_mode : GameModes,
            default_test_length : 1..MaxNumWords,
            default_time_limit : 1..MaxTimeLimit,
            word_list_difficulty : Difficulties,
            restart_button : BOOLEAN] :
        /\ c.game_mode = "Time" => /\ c.word_list_difficulty \in TimeDifficulties
                                   /\ c.default_test_length = MaxNumWords
        /\ c.game_mode = "Words" => c.default_time_limit = 1}

\* A result saved by an earlier run of the program.
PriorResult == [wpm |-> <<12, 1>>, accuracy |-> <<50, 1>>]

OtherKey == <<"time", 0, "Hard">>

\* What load_config can return for config.results: nothing, or earlier results
\* under this session's key and under another key.
LoadedResults(c) ==
    { [k \in {} |-> <<>>],
      [k \in {ResultKey(c), OtherKey} |-> <<PriorResult>>] }

\* Results appended by this run of main().
Appended ==
    IF ResultKey(config) \in DOMAIN results
    THEN Len(results[ResultKey(config)]) - (IF OtherKey \in DOMAIN results THEN 1 ELSE 0)
    ELSE 0

StartSession(queue) ==
    /\ words_to_type' = queue
    /\ user_typed_words' = EmptyBuffers(Len(queue))
    /\ current_word_index' = 0
    /\ start_time' = None
    /\ last_wpm_update' = None
    /\ wpm' = Zero

\* The terminal after execute!(stdout, EnterAlternateScreen) and
\* enable_raw_mode(), and after disable_raw_mode() and
\* execute!(stdout, LeaveAlternateScreen).  The calls that restore it are taken
\* to succeed.
Entered == [raw_mode |-> TRUE, alternate_screen |-> TRUE]

Restored == [raw_mode |-> FALSE, alternate_screen |-> FALSE]

Init ==
    /\ config \in Configs
    /\ results \in LoadedResults(config)
    /\ running = TRUE
    /\ phase = "Running"
    /\ ended = "none"
    /\ words_to_type \in NewQueues(config)
    /\ user_typed_words = EmptyBuffers(Len(words_to_type))
    /\ current_word_index = 0
    /\ start_time = None
    /\ last_wpm_update = None
    /\ wpm = Zero
    /\ typed = 0
    /\ terminal = Entered

\* ------------------------------------------------------------ the tick loop
\* Mutant of GameOver: an absent clock counts as an elapsed one.
GameOverWithoutClock ==
    IF config.game_mode = "Time"
    THEN start_time = None
         \/ start_time[1] \div UnitsPerSec >= config.default_time_limit
    ELSE current_word_index >= config.default_test_length

\* Mutant of GameOver: the mode is not looked at, the word count decides in
\* Time mode too.
GameOverByWordCount == current_word_index >= config.default_test_length

\* Mutant of GameOver: in Words mode the predicate fires on the last word.
GameOverAtLastWord ==
    IF config.game_mode = "Time"
    THEN start_time # None
         /\ start_time[1] \div UnitsPerSec >= config.default_time_limit
    ELSE current_word_index >= config.default_test_length - 1

\* The completion predicate at the top of the tick (main.rs:100-117).
GameOver ==
    IF config.game_mode = "Time"
    THEN start_time # None
         /\ start_time[1] \div UnitsPerSec >= config.default_time_limit
    ELSE current_word_index >= config.default_test_length

\* Mutant of SampleDue: every tick takes a sample.
SampleEveryTick == TRUE

\* The cadence gate of the live sample (main.rs:121).
SampleDue ==
    last_wpm_update = None \/ last_wpm_update[1] \div UnitsPerSec >= 1

\* wpm and last_wpm_update after the sample step of a tick (main.rs:121-147).
SampledWpm ==
    IF SampleDue THEN LiveWpm(LiveCorrect(user_typed_words, words_to_type), start_time)
    ELSE wpm

SampledLast == IF SampleDue THEN Some(0) ELSE last_wpm_update

\* Mutant of PushResult: the key's list is replaced by the new result.
PushResultOverwriting(store, key, r) ==
    [k \in DOMAIN store \cup {key} |-> IF k = key THEN <<r>> ELSE store[k]]

\* config.results.entry(key).or_insert_with(Vec::new).push(test_result)
PushResult(store, key, r) ==
    [k \in DOMAIN store \cup {key} |->
        IF k = key
        THEN Append(IF key \in DOMAIN store THEN store[key] ELSE <<>>, r)
        ELSE store[k]]

\* The TestResult of a session that ends with these buffers, queue, cursor and
\* clock (main.rs:466-506).
FinalResult(buffers, queue, cursor, start) ==
    LET correct == FinalCorrect(buffers, queue, cursor)
        incorrect == FinalIncorrect(buffers, queue, cursor)
    IN  [wpm |-> FinalWpm(config.game_mode, config.default_time_limit, start, correct),
         accuracy |-> Accuracy(correct, incorrect)]

\* One pass through the loop body that leaves the session with the given values;
\* brk names the break taken, "none" when the body runs to its end, where the
\* bound check of main.rs:461-463 can still break.  Leaving the loop computes the
\* result, stores it and waits in the review loop.
Tick(queue, buffers, cursor, start, last, w, brk) ==
    LET reason == IF brk # "none" THEN brk
                  ELSE IF cursor >= Len(queue) THEN "bound" ELSE "none"
    IN  /\ words_to_type' = queue
        /\ user_typed_words' = buffers
        /\ current_word_index' = cursor
        /\ start_time' = start
        /\ last_wpm_update' = last
        /\ wpm' = w
        /\ ended' = reason
        /\ IF reason = "none"
           THEN /\ phase' = "Running"
                /\ results' = results
           ELSE /\ phase' = "Review"
                /\ results' = PushResult(results, ResultKey(config),
                                         FinalResult(buffers, queue, cursor, start))
        /\ UNCHANGED <<config, running, terminal>>

\* Mutant of Polling: the interrupt flag is not read before the poll.
PollingUninterrupted ==
    /\ phase = "Running"
    /\ ~GameOver
    /\ ~RenderPanics(words_to_type, user_typed_words)

\* The tick reaches event::poll (main.rs:406).
Polling ==
    /\ phase = "Running"
    /\ running
    /\ ~GameOver
    /\ ~RenderPanics(words_to_type, user_typed_words)

\* if !running.load(..) { break; }
TickInterrupted ==
    /\ phase = "Running"
    /\ ~running
    /\ Tick(words_to_type, user_typed_words, current_word_index, start_time,
            last_wpm_update, wpm, "interrupt")
    /\ UNCHANGED typed

\* if game_over { break; }
TickGameOver ==
    /\ phase = "Running"
    /\ running
    /\ GameOver
    /\ Tick(words_to_type, user_typed_words, current_word_index, start_time,
            last_wpm_update, wpm, "game_over")
    /\ UNCHANGED typed

\* The poll times out, or the event is not a key event, or the key is none of
\* the handled ones.
TickNoKey ==
    /\ Polling
    /\ Tick(words_to_type, user_typed_words, current_word_index, start_time,
            SampledLast, SampledWpm, "none")
    /\ UNCHANGED typed

\* The queue after the advance of main.rs:411-419 moved the cursor to `cursor`.
Replenished(queue, cursor) ==
    IF config.game_mode = "Time" /\ Len(queue) - cursor < ReplenishMargin
    THEN {queue \o new :
            new \in ChooseMultiple(CurrentWordList(config.word_list_difficulty),
                                   ReplenishBatch)}
    ELSE {queue}

\* Mutant of CanAdvance: the guard is off by one.
CanAdvancePastEnd(cursor, queue) == cursor < Len(queue)

\* if current_word_index < words_to_type.len() - 1
CanAdvance(cursor, queue) == cursor < Len(queue) - 1

\* Mutant of TickSpace: the advance clears the buffer of the word it leaves.
TickSpaceClearing ==
    /\ Polling
    /\ IF CanAdvance(current_word_index, words_to_type)
       THEN \E queue \in Replenished(words_to_type, current_word_index + 1) :
               /\ Len(queue) <= MaxQueue
               /\ Tick(queue,
                       Resize([user_typed_words EXCEPT ![current_word_index + 1] = <<>>],
                              Len(queue)),
                       current_word_index + 1, start_time, SampledLast, SampledWpm,
                       "none")
       ELSE Tick(words_to_type, user_typed_words, current_word_index, start_time,
                 SampledLast, SampledWpm, "none")
    /\ UNCHANGED typed

\* KeyCode::Char(' ')
TickSpace ==
    /\ Polling
    /\ IF CanAdvance(current_word_index, words_to_type)
       THEN \E queue \in Replenished(words_to_type, current_word_index + 1) :
               /\ Len(queue) <= MaxQueue
               /\ Tick(queue, Resize(user_typed_words, Len(queue)),
                       current_word_index + 1, start_time, SampledLast, SampledWpm,
                       "none")
       ELSE Tick(words_to_type, user_typed_words, current_word_index, start_time,
                 SampledLast, SampledWpm, "none")
    /\ UNCHANGED typed

\* The exact-match break of main.rs:427-434.
ExactMatch(buffers, queue, cursor) ==
    /\ config.game_mode = "Words"
    /\ cursor = config.default_test_length - 1
    /\ buffers[cursor + 1] = queue[cursor + 1]

\* Mutant of TickChar: every character takes a new start instant.
TickCharTakingInstant(c) ==
    /\ Polling
    /\ typed + len_utf8(c) <= MaxTyped
    /\ typed' = typed + len_utf8(c)
    /\ LET buffers == [user_typed_words EXCEPT ![current_word_index + 1] = Append(@, c)]
       IN  Tick(words_to_type, buffers, current_word_index, Some(0),
                SampledLast, SampledWpm,
                IF ExactMatch(buffers, words_to_type, current_word_index)
                THEN "match" ELSE "none")

\* Mutant of TickChar: the character is pushed, the clock is not started.
TickCharWithoutClock(c) ==
    /\ Polling
    /\ typed + len_utf8(c) <= MaxTyped
    /\ typed' = typed + len_utf8(c)
    /\ LET buffers == [user_typed_words EXCEPT ![current_word_index + 1] = Append(@, c)]
       IN  Tick(words_to_type, buffers, current_word_index, start_time,
                SampledLast, SampledWpm,
                IF ExactMatch(buffers, words_to_type, current_word_index)
                THEN "match" ELSE "none")

\* KeyCode::Char(c), c not a space
TickChar(c) ==
    /\ Polling
    /\ typed + len_utf8(c) <= MaxTyped
    /\ typed' = typed + len_utf8(c)
    /\ LET buffers == [user_typed_words EXCEPT ![current_word_index + 1] = Append(@, c)]
       IN  Tick(words_to_type, buffers, current_word_index,
                IF start_time = None THEN Some(0) ELSE start_time,
                SampledLast, SampledWpm,
                IF ExactMatch(buffers, words_to_type, current_word_index)
                THEN "match" ELSE "none")

\* Mutant of Pop: the first character is removed instead of the last.
PopFront(s) == IF s = <<>> THEN s ELSE Tail(s)

\* String::pop
Pop(s) == IF s = <<>> THEN s ELSE SubSeq(s, 1, Len(s) - 1)

\* Mutant of TickBackspace: on an empty buffer it steps back to the previous word.
TickBackspaceCrossing ==
    /\ Polling
    /\ Tick(words_to_type,
            [user_typed_words EXCEPT ![current_word_index + 1] = Pop(@)],
            IF user_typed_words[current_word_index + 1] = <<>> /\ current_word_index > 0
            THEN current_word_index - 1 ELSE current_word_index,
            start_time, SampledLast, SampledWpm, "none")
    /\ UNCHANGED typed

\* KeyCode::Backspace
TickBackspace ==
    /\ Polling
    /\ Tick(words_to_type,
            [user_typed_words EXCEPT ![current_word_index + 1] = Pop(@)],
            current_word_index, start_time, SampledLast, SampledWpm, "none")
    /\ UNCHANGED typed

\* Mutant of TickTab: a restart leaves the live sample and its instant alone.
TickTabStaleSample ==
    /\ Polling
    /\ IF config.restart_button
       THEN \E queue \in RestartQueues(config) :
               Tick(queue, EmptyBuffers(Len(queue)), 0, None, last_wpm_update, wpm,
                    "none")
       ELSE Tick(words_to_type, user_typed_words, current_word_index, start_time,
                 SampledLast, SampledWpm, "none")
    /\ UNCHANGED typed

\* Mutant of TickTab: config.restart_button is not looked at.
TickTabUnconditional ==
    /\ Polling
    /\ \E queue \in RestartQueues(config) :
          Tick(queue, EmptyBuffers(Len(queue)), 0, None, None, Zero, "none")
    /\ UNCHANGED typed

\* Mutant of TickTab: a restart keeps what the buffers hold.
TickTabKeepingBuffers ==
    /\ Polling
    /\ IF config.restart_button
       THEN \E queue \in RestartQueues(config) :
               Tick(queue, Resize(user_typed_words, Len(queue)), 0, None, None, Zero,
                    "none")
       ELSE Tick(words_to_type, user_typed_words, current_word_index, start_time,
                 SampledLast, SampledWpm, "none")
    /\ UNCHANGED typed

\* KeyCode::Tab
TickTab ==
    /\ Polling
    /\ IF config.restart_button
       THEN \E queue \in RestartQueues(config) :
               Tick(queue, EmptyBuffers(Len(queue)), 0, None, None, Zero, "none")
       ELSE Tick(words_to_type, user_typed_words, current_word_index, start_time,
                 SampledLast, SampledWpm, "none")
    /\ UNCHANGED typed

\* KeyCode::Esc
TickEsc ==
    /\ Polling
    /\ Tick(words_to_type, user_typed_words, current_word_index, start_time,
            SampledLast, SampledWpm, "abort")
    /\ UNCHANGED typed

\* ---------------------------------------------------------- the review loop
\* Mutant of ReviewTab: the outer loop does not read the interrupt flag.
ReviewTabAlways ==
    /\ phase = "Review"
    /\ Appended < MaxSessions
    /\ phase' = "Running"
    /\ ended' = "none"
    /\ \E queue \in NewQueues(config) : StartSession(queue)
    /\ UNCHANGED <<config, results, running, typed, terminal>>

\* KeyCode::Tab in review: break, then the outer while running.load(..).  When
\* the outer loop ends the closure's locals are gone: they take their initial
\* values in "Exited".
ReviewTab ==
    /\ phase = "Review"
    /\ IF running
       THEN /\ Appended < MaxSessions
            /\ phase' = "Running"
            /\ ended' = "none"
            /\ \E queue \in NewQueues(config) : StartSession(queue)
            /\ terminal' = terminal
       ELSE /\ phase' = "Exited"
            /\ ended' = "none"
            /\ StartSession(<<>>)
            /\ terminal' = Restored
    /\ UNCHANGED <<config, results, running, typed>>

\* KeyCode::Esc in review: running.store(false), break.
ReviewEsc ==
    /\ phase = "Review"
    /\ running' = FALSE
    /\ phase' = "Exited"
    /\ ended' = "none"
    /\ StartSession(<<>>)
    /\ terminal' = Restored
    /\ UNCHANGED <<config, results, typed>>

\* Any other key in review.
ReviewOtherKey ==
    /\ phase = "Review"
    /\ UNCHANGED vars

\* ------------------------------------------------------------ environment
\* The Ctrl-C handler: r.store(false).
Interrupt ==
    /\ phase \in {"Running", "Review"}
    /\ running
    /\ running' = FALSE
    /\ UNCHANGED <<config, results, phase, ended, session, typed, terminal>>

Older(instant, cap) ==
    IF instant = None THEN None
    ELSE Some(IF instant[1] < cap THEN instant[1] + 1 ELSE cap)

\* One clock unit passes while the session runs.  The age of the last sample is
\* kept up to one second, beyond which the cadence gate reads the same.
PassTime ==
    /\ phase = "Running"
    /\ \/ start_time # None /\ start_time[1] < MaxAge
       \/ start_time = None /\ last_wpm_update # None
          /\ last_wpm_update[1] < UnitsPerSec
    /\ start_time' = Older(start_time, MaxAge)
    /\ last_wpm_update' = Older(last_wpm_update, UnitsPerSec)
    /\ UNCHANGED <<config, results, running, phase, ended, words_to_type,
                   user_typed_words, current_word_index, wpm, typed, terminal>>

\* A call followed by `?` returns Err: terminal::size, execute!, event::poll and
\* event::read in a tick, or save_config, execute! and event::read once the
\* result is stored.  The closure returns the error and main returns it in
\* turn (Err(e) => return Err(e)), before the lines that restore the terminal.
\* The locals of the closure are gone, as in "Exited".
IoError ==
    /\ (phase = "Running" /\ running /\ ~GameOver) \/ phase = "Review"
    /\ phase' = "Failed"
    /\ ended' = "none"
    /\ StartSession(<<>>)
    /\ UNCHANGED <<config, results, running, typed, terminal>>

\* The tick reaches the rendering loop and the loop panics: the thread unwinds
\* out of main, past the lines that restore the terminal, and the process ends.
TickPanic ==
    /\ phase = "Running"
    /\ running
    /\ ~GameOver
    /\ RenderPanics(words_to_type, user_typed_words)
    /\ phase' = "Failed"
    /\ ended' = "none"
    /\ StartSession(<<>>)
    /\ UNCHANGED <<config, results, running, typed, terminal>>

Next ==
    \/ TickInterrupted
    \/ TickGameOver
    \/ TickNoKey
    \/ TickSpace
    \/ \E c \in KeyChars : TickChar(c)
    \/ TickBackspace
    \/ TickTab
    \/ TickEsc
    \/ ReviewTab
    \/ ReviewEsc
    \/ ReviewOtherKey
    \/ Interrupt
    \/ PassTime
    \/ IoError
    \/ TickPanic

Spec == Init /\ [][Next]_vars

\* ------------------------------------------------- the loop under fairness
\* Time-mode runs of a program that has no saved results yet, with the restart
\* key enabled: with the key disabled, KeyCode::Tab is a tick without effect, so
\* the runs explored include those of the other setting.
TimeInit ==
    /\ Init
    /\ config.game_mode = "Time"
    /\ config.restart_button
    /\ DOMAIN results = {}

\* The top of a tick that ends the session: the loop body runs again and again
\* (event::poll returns after 50 ms at the latest), so a break that stays
\* possible is taken.
BreakAtTop == TickInterrupted \/ TickGameOver

\* The loop keeps running and wall time keeps advancing; nothing is assumed of
\* the keys.
FairSpec == TimeInit /\ [][Next]_vars /\ WF_vars(BreakAtTop) /\ WF_vars(PassTime)

\* ------------------------------------------------- what the frame depends on
\* The frame drawn in a tick depends on the queue, the buffers and the cursor
\* (and on the terminal size and the layout), not on the clock, the results or
\* the interrupt flag: these are the key events that change them while the
\* session runs.
FrameNext ==
    \/ TickSpace
    \/ \E c \in KeyChars : TickChar(c)
    \/ TickBackspace
    \/ TickTab

FrameSpec == Init /\ [][FrameNext]_vars

\* ================================================================== claims
InSession == phase \in {"Running", "Review"}

WordList == CurrentWordList(config.word_list_difficulty)

\* C1: in every reachable state the number of typed buffers equals the number
\* of words in the queue (after construction, every key event, every replenish
\* and every restart).
C1_BuffersMatchQueue == Len(user_typed_words) = Len(words_to_type)

\* C1 witness: a running Time-mode session whose queue has been replenished.
C1_Witness ==
    /\ phase = "Running"
    /\ config.game_mode = "Time"
    /\ Len(words_to_type) > PoolRounds * Len(WordList)
    /\ Len(user_typed_words) = Len(words_to_type)

\* C2 (as claimed): in Time mode, while the session is Running, at least 10
\* words of the queue are at or ahead of the cursor.
C2_TimeMargin ==
    (phase = "Running" /\ config.game_mode = "Time")
        => Len(words_to_type) - current_word_index >= ReplenishMargin

\* C3 (as claimed): in Words mode the queue of a session holds exactly
\* target_length words, also when target_length exceeds the size of the list.
C3_WordsQueueLength ==
    (InSession /\ config.game_mode = "Words")
        => Len(words_to_type) = config.default_test_length

\* C4 (as claimed): in Words mode no key event leaves the session Running with
\* the cursor on the last index of the queue and the buffer at the cursor equal
\* to the target word: the tick that produced the match left Running.
C4_ExactMatchCompletes ==
    (phase = "Running" /\ config.game_mode = "Words"
       /\ current_word_index = Len(words_to_type) - 1)
        => user_typed_words[current_word_index + 1] # words_to_type[current_word_index + 1]

\* C5: while a session exists the cursor is a valid index of the queue and of
\* the buffers: 0 <= cursor < len(queue).
C5_CursorInRange ==
    InSession =>
        /\ 0 <= current_word_index
        /\ current_word_index < Len(words_to_type)
        /\ current_word_index + 1 \in DOMAIN user_typed_words

\* C5 witness: the cursor has advanced to the last index of a running session,
\* where a space no longer moves it.
C5_Witness ==
    /\ phase = "Running"
    /\ current_word_index > 0
    /\ current_word_index = Len(words_to_type) - 1

AllEmpty(buffers) == \A i \in DOMAIN buffers : buffers[i] = <<>>

\* The restart key was dispatched with restart enabled.
RestartStep == TickTab /\ config.restart_button

\* C6: from one state of Running to the next the cursor stays or grows by exactly
\* one, except on a restart step, where it becomes 0; no character, backspace or
\* idle tick decreases it.
C6_CursorSteps ==
    [][(phase = "Running" /\ phase' \in {"Running", "Review"}) =>
          \/ current_word_index' = current_word_index
          \/ current_word_index' = current_word_index + 1
          \/ RestartStep /\ current_word_index' = 0]_vars

\* C6 witness: a running session that was restarted after typing and has
\* advanced again since.
C6_Witness ==
    /\ phase = "Running"
    /\ Appended = 0
    /\ typed > 0
    /\ AllEmpty(user_typed_words)
    /\ current_word_index > 0

LastResult == results[ResultKey(config)][Len(results[ResultKey(config)])]

\* C7: with the interrupt flag set, a Running session dispatches no further key
\* event: its next tick leaves Running, and the result of the progress made so
\* far is computed and stored as on completion; in Time mode with the clock
\* absent that result is wpm 0 and accuracy 100.
C7_InterruptEndsSession ==
    [][(phase = "Running" /\ ~running) =>
          /\ UNCHANGED <<words_to_type, user_typed_words, current_word_index, typed>>
          /\ phase' = "Running" => results' = results
          /\ phase' # "Running" =>
                /\ phase' = "Review"
                /\ ended' = "interrupt"
                /\ results' = PushResult(results, ResultKey(config),
                                  FinalResult(user_typed_words, words_to_type,
                                              current_word_index, start_time))
                /\ (config.game_mode = "Time" /\ start_time = None) =>
                      LastResult' = [wpm |-> <<0, 1>>, accuracy |-> <<100, 1>>]]_vars

\* C7 witness: a Time-mode session ended by the interrupt after words were
\* skipped and no character typed, with wpm 0 and accuracy 100 stored.
C7_Witness ==
    /\ phase = "Review"
    /\ ended = "interrupt"
    /\ config.game_mode = "Time"
    /\ start_time = None
    /\ current_word_index > 0
    /\ LastResult = [wpm |-> <<0, 1>>, accuracy |-> <<100, 1>>]

\* The store `next` is the store `prev` with exactly one result appended under
\* `key`: earlier entries of the key and all other keys are as before.
OneAppended(prev, next, key) ==
    LET old == IF key \in DOMAIN prev THEN prev[key] ELSE <<>>
    IN  /\ DOMAIN next = DOMAIN prev \cup {key}
        /\ Len(next[key]) = Len(old) + 1
        /\ \A i \in 1..Len(old) : next[key][i] = old[i]
        /\ \A k \in DOMAIN prev : k # key => next[k] = prev[k]

\* The key the claim names: the mode with its parameter (word count or time
\* limit) and the difficulty.
KeyByModeAndParameter ==
    IF config.game_mode = "Words"
    THEN <<"words", config.default_test_length, config.word_list_difficulty>>
    ELSE <<"time", config.default_time_limit, config.word_list_difficulty>>

\* C8: a session that leaves Running by the completion predicate, the exact
\* match, the abort key or the interrupt goes to Review with exactly one
\* TestResult appended under the key of its mode and parameters, earlier entries
\* and other keys unchanged; no other step changes the results.
C8_OneResultPerSession ==
    [][IF phase = "Running" /\ ended' \in {"game_over", "match", "abort", "interrupt"}
       THEN /\ phase' = "Review"
            /\ OneAppended(results, results', KeyByModeAndParameter)
       ELSE results' = results]_vars

\* C8 witness: the second session of a run ended by the completion predicate,
\* with results of an earlier run in the store.
C8_Witness ==
    /\ phase = "Review"
    /\ ended = "game_over"
    /\ OtherKey \in DOMAIN results
    /\ Appended = 2

FreshSession ==
    /\ phase = "Running"
    /\ current_word_index = 0
    /\ AllEmpty(user_typed_words)
    /\ Len(user_typed_words) = Len(words_to_type)
    /\ words_to_type \in NewQueues(config)
    /\ start_time = None

\* C9 (as claimed): in Review the restart key always leads to a fresh session in
\* Running, whichever way the previous session ended.
C9_RestartAlwaysRestarts == [][ReviewTab => FreshSession']_vars

\* C9 (amended): in Review the restart key leads to a fresh session in Running
\* when the interrupt flag is not set and ends the outer loop when it is set; the
\* abort key clears the flag and ends the outer loop; no step from Review changes
\* the results, and a step that stays in Review changes nothing of the session.
C9_ReviewKeys ==
    [][phase = "Review" =>
          /\ results' = results
          /\ phase' = "Review" => UNCHANGED <<session, ended>>
          /\ ReviewTab => IF running THEN FreshSession' ELSE phase' = "Exited"
          /\ (phase' \notin {"Review", "Failed"} /\ running' = running) =>
                IF running THEN FreshSession' ELSE phase' = "Exited"
          /\ (phase' # "Review" /\ running' # running) =>
                phase' = "Exited" /\ ~running']_vars

\* C9 witness: a fresh session started from Review after a session in which
\* characters were typed.
C9_Witness ==
    /\ FreshSession
    /\ running
    /\ Appended = 1
    /\ typed > 0

\* C10: a Time-mode session left through the completion predicate has a clock,
\* and the whole seconds elapsed since its start are at least the time limit;
\* with the clock absent the predicate does not fire.
C10_TimePredicate ==
    (phase = "Review" /\ ended = "game_over" /\ config.game_mode = "Time") =>
        /\ start_time # None
        /\ start_time[1] \div UnitsPerSec >= config.default_time_limit

\* C10 witness: a Time-mode session ended by the completion predicate.
C10_Witness ==
    /\ phase = "Review"
    /\ ended = "game_over"
    /\ config.game_mode = "Time"
    /\ start_time # None

CountedEmpty ==
    \A i \in 1..Min(current_word_index + 1, Len(user_typed_words)) :
        user_typed_words[i] = <<>>

\* C12: the accuracy stored for a finished session lies in [0, 100], and it is
\* exactly 100 whenever the buffers at indices 0..cursor hold no character.
C12_AccuracyRange ==
    phase = "Review" =>
        /\ LastResult.accuracy[2] > 0
        /\ 0 <= LastResult.accuracy[1]
        /\ LastResult.accuracy[1] <= 100 * LastResult.accuracy[2]
        /\ CountedEmpty => LastResult.accuracy = <<100, 1>>

\* C12 witness: a session in which a character was typed and deleted again,
\* finished with nothing in its counted buffers and accuracy 100.
C12_Witness ==
    /\ phase = "Review"
    /\ Appended = 1
    /\ typed > 0
    /\ start_time # None
    /\ CountedEmpty
    /\ LastResult.accuracy = <<100, 1>>

\* C13: in both modes, while the clock is absent the live WPM of a Running
\* session is 0, and a session that ends with the clock absent stores WPM 0.
C13_NoClockNoWpm ==
    start_time = None =>
        /\ phase = "Running" => wpm = Zero
        /\ phase = "Review" => LastResult.wpm = Zero

\* C13 witness: a session restarted after typing, so that its clock is absent
\* again, then advanced and ended with WPM 0 stored.
C13_Witness ==
    /\ phase = "Review"
    /\ start_time = None
    /\ Appended = 1
    /\ typed > 0
    /\ current_word_index > 0
    /\ LastResult.wpm = Zero

\* The (word, position) pairs of the words at indices 0..cursor inclusive.
CountedWords == 1..Min(current_word_index + 1, Len(words_to_type))

\* Positions below min(len(buffer), len(word)) whose characters are equal.
MatchingPositions ==
    {p \in CountedWords \X (1..MaxTyped + 1) :
        /\ p[2] <= Len(user_typed_words[p[1]])
        /\ p[2] <= Len(words_to_type[p[1]])
        /\ user_typed_words[p[1]][p[2]] = words_to_type[p[1]][p[2]]}

\* Positions below min(len(buffer), len(word)) whose characters differ.
DifferingPositions ==
    {p \in CountedWords \X (1..MaxTyped + 1) :
        /\ p[2] <= Len(user_typed_words[p[1]])
        /\ p[2] <= Len(words_to_type[p[1]])
        /\ user_typed_words[p[1]][p[2]] # words_to_type[p[1]][p[2]]}

\* Typed positions beyond the word's length.
OverflowPositions ==
    {p \in CountedWords \X (1..MaxTyped + 1) :
        /\ p[2] <= Len(user_typed_words[p[1]])
        /\ p[2] > Len(words_to_type[p[1]])}

\* C14 (as claimed): the counts behind a stored result are, over the words at
\* indices 0..cursor inclusive, the matching positions for correct and the
\* differing plus the overflowing positions for incorrect; the stored accuracy
\* is their quotient.
C14_FinalCounts ==
    phase = "Review" =>
        LET correct == Cardinality(MatchingPositions)
            incorrect == Cardinality(DifferingPositions)
                         + Cardinality(OverflowPositions)
        IN  /\ \A i \in DOMAIN user_typed_words : Len(user_typed_words[i]) <= MaxTyped + 1
            /\ FinalCorrect(user_typed_words, words_to_type, current_word_index) = correct
            /\ FinalIncorrect(user_typed_words, words_to_type, current_word_index) = incorrect
            /\ correct + incorrect > 0 =>
                  LastResult.accuracy[1] * (correct + incorrect)
                      = 100 * correct * LastResult.accuracy[2]

RECURSIVE TotalChars(_)
TotalChars(queue) ==
    IF queue = <<>> THEN 0 ELSE Len(Head(queue)) + TotalChars(Tail(queue))

\* C15 (as claimed): a Words-mode session in which every word of the queue has
\* been typed exactly, with a space between words and none after the last, has
\* completed on the last character of the last word, with correct equal to the
\* number of target characters, incorrect 0 and accuracy 100.
C15_ExactTypingCompletes ==
    (InSession /\ config.game_mode = "Words" /\ user_typed_words = words_to_type) =>
        /\ phase = "Review"
        /\ ended = "match"
        /\ FinalCorrect(user_typed_words, words_to_type, current_word_index)
               = TotalChars(words_to_type)
        /\ FinalIncorrect(user_typed_words, words_to_type, current_word_index) = 0
        /\ LastResult.accuracy = <<100, 1>>

\* C16 (as claimed): in both layouts, for every terminal size and every queue,
\* buffers and cursor of a Running session, the cursor coordinate is the place
\* where the rendering loop puts the first character of the active word,
\* shifted right by the length of the active buffer; in particular the two are
\* on the same row.
C16_CursorOnActiveWord ==
    phase = "Running" =>
        \A theme \in LayoutThemes : \A size \in LayoutSizes(theme) :
            LET origin == LayoutGlyphOrigin(theme, size, words_to_type,
                                            current_word_index)
            IN  LayoutCursor(theme, size, words_to_type, user_typed_words,
                             current_word_index)
                    = <<origin[1] + Len(user_typed_words[current_word_index + 1]),
                        origin[2]>>

\* C17: a backspace removes the last character of the buffer at the cursor when
\* that buffer is not empty and changes no buffer when it is empty; the cursor,
\* every other buffer, the queue and the clock are unchanged.
C17_BackspaceEffect ==
    [][TickBackspace =>
          LET active == current_word_index + 1
              buffer == user_typed_words[active]
          IN  /\ DOMAIN user_typed_words' = DOMAIN user_typed_words
              /\ user_typed_words'[active] =
                     IF buffer = <<>> THEN <<>>
                     ELSE [k \in 1..Len(buffer) - 1 |-> buffer[k]]
              /\ \A j \in DOMAIN user_typed_words \ {active} :
                     user_typed_words'[j] = user_typed_words[j]
              /\ UNCHANGED <<current_word_index, words_to_type, start_time>>]_vars

\* C17 witness: a Running session whose only typed character has been removed
\* by a backspace: the clock it started is still there, the buffers are empty.
C17_Witness ==
    /\ phase = "Running"
    /\ Appended = 0
    /\ typed = 1
    /\ start_time # None
    /\ AllEmpty(user_typed_words)

\* C18 (as claimed): whichever way main returns, with Ok or with the I/O error
\* of a failed call, the raw mode and the alternate screen entered at start-up
\* have been left again.
C18_TerminalRestoredOnExit ==
    phase \in {"Exited", "Failed"} => terminal = Restored

\* C19: the WPM stored for a finished session is (correct / 5) / (duration / 60),
\* where the duration is the configured time limit in Time mode, whichever break
\* ended the session, and the time elapsed since the clock started in Words
\* mode; it is 0 when the duration is 0.  (duration in seconds; the elapsed time
\* is start_time[1] / UnitsPerSec.)
C19_FinalWpmDuration ==
    phase = "Review" =>
        LET correct == Cardinality(MatchingPositions)
            final_wpm == LastResult.wpm
        IN  /\ final_wpm[2] > 0
            /\ IF config.game_mode = "Time"
               THEN final_wpm[1] * 5 * config.default_time_limit
                        = correct * 60 * final_wpm[2]
               ELSE IF start_time = None \/ start_time[1] = 0
                    THEN final_wpm = Zero
                    ELSE final_wpm[1] * 5 * start_time[1]
                             = correct * 60 * UnitsPerSec * final_wpm[2]

\* C19 witness: a Time-mode session aborted or interrupted before a clock unit
\* had elapsed, with a correct character typed: its WPM is not 0, the duration
\* was the time limit.
C19_Witness ==
    /\ phase = "Review"
    /\ config.game_mode = "Time"
    /\ ended \in {"abort", "interrupt"}
    /\ start_time = Some(0)
    /\ LastResult.wpm # Zero

\* C21: with restart enabled, the restart key in Running sets the cursor to 0,
\* empties every buffer, clears the clock and the instant of the last sample and
\* sets the live WPM to 0; with restart disabled the key changes nothing of the
\* session: queue, buffers, cursor and clock stay, and the live WPM and its
\* instant are those of a tick without a key (unchanged unless the sample of
\* that tick was due).
C21_RestartKey ==
    [][TickTab =>
          IF config.restart_button
          THEN /\ phase' = "Running"
               /\ current_word_index' = 0
               /\ Len(user_typed_words') = Len(words_to_type')
               /\ AllEmpty(user_typed_words')
               /\ start_time' = None
               /\ last_wpm_update' = None
               /\ wpm' = Zero
          ELSE /\ UNCHANGED <<words_to_type, user_typed_words, current_word_index,
                              start_time>>
               /\ ~SampleDue => UNCHANGED <<wpm, last_wpm_update>>
               /\ TickNoKey]_vars

\* C21 witness: with restart enabled, a session restarted after a character was
\* typed and a live WPM above 0 was possible: everything is back at its start.
C21_Witness ==
    /\ phase = "Running"
    /\ config.restart_button
    /\ Appended = 0
    /\ typed > 0
    /\ current_word_index = 0
    /\ AllEmpty(user_typed_words)
    /\ start_time = None
    /\ last_wpm_update = None
    /\ wpm = Zero

\* A character other than a space was dispatched.
CharStep == \E c \in KeyChars : TickChar(c)

\* C22: the clock is absent when a session is constructed; while the session
\* runs it appears only in the dispatch of a character other than a space, as
\* an instant taken at that dispatch; later characters, spaces, backspaces and
\* ticks leave the instant alone (it only grows older), and only a restart
\* removes it.
C22_ClockStart ==
    [][/\ (phase # "Running" /\ phase' = "Running") => start_time' = None
       /\ (phase = "Running" /\ phase' \in {"Running", "Review"}) =>
             /\ (start_time = None /\ start_time' # None) =>
                   CharStep /\ start_time' = Some(0)
             /\ CharStep =>
                   start_time' = IF start_time = None THEN Some(0) ELSE start_time
             /\ (TickSpace \/ TickBackspace \/ TickNoKey) => start_time' = start_time
             /\ (start_time # None /\ start_time' # start_time) =>
                   \/ RestartStep /\ start_time' = None
                   \/ PassTime /\ start_time' = Some(start_time[1] + 1)]_vars

\* C22 witness: a second character, dispatched a clock unit after the first,
\* found the clock started and left it: the clock is one unit old, the sample
\* of that tick is new and counts the first character only.
C22_Witness ==
    /\ InSession
    /\ Appended <= 1
    /\ typed = 2
    /\ user_typed_words[1] = <<"a", "b">>
    /\ Len(words_to_type[1]) >= 2
    /\ SubSeq(words_to_type[1], 1, 2) = <<"a", "b">>
    /\ start_time = Some(1)
    /\ last_wpm_update = Some(0)
    /\ wpm = LiveWpm(1, Some(1))

\* C23: a space moves the cursor forward by one exactly when the cursor is not
\* the last index of the queue and leaves it otherwise; in both cases every
\* buffer keeps its content (buffers added for new words are empty), so the
\* buffer of the word left behind keeps what was typed.
C23_SpaceEffect ==
    [][TickSpace =>
          /\ current_word_index' =
                 IF current_word_index # Len(words_to_type) - 1
                 THEN current_word_index + 1 ELSE current_word_index
          /\ DOMAIN user_typed_words \subseteq DOMAIN user_typed_words'
          /\ \A i \in DOMAIN user_typed_words' :
                 user_typed_words'[i] =
                     IF i \in DOMAIN user_typed_words THEN user_typed_words[i] ELSE <<>>]_vars

\* C23 witness: a running session that advanced past a word with a typed
\* character in its buffer; the buffer still holds it.
C23_Witness ==
    /\ phase = "Running"
    /\ Appended = 0
    /\ current_word_index = 1
    /\ Len(user_typed_words[1]) = typed
    /\ typed > 0

\* C24 (as claimed): while a session runs the queue changes only by a restart
\* or by a replenish; a replenish happens only in Time mode, only in a space
\* step whose advance leaves len(queue) - cursor below 10, and appends 20 words
\* at the end, every existing entry staying in place.
C24_QueueChanges ==
    [][(phase = "Running" /\ phase' \in {"Running", "Review"}
          /\ words_to_type' # words_to_type) =>
          \/ RestartStep
          \/ /\ config.game_mode = "Time"
             /\ TickSpace
             /\ current_word_index' = current_word_index + 1
             /\ Len(words_to_type) - current_word_index' < ReplenishMargin
             /\ Len(words_to_type') = Len(words_to_type) + ReplenishBatch
             /\ SubSeq(words_to_type', 1, Len(words_to_type)) = words_to_type]_vars

\* At least one whole second has passed since the last sample, or there is none.
SecondSinceSample == last_wpm_update = None \/ last_wpm_update[1] >= UnitsPerSec

\* C25: apart from a restart, the live WPM and the instant of the last sample
\* change only in a tick that finds no previous sample or finds it at least one
\* whole second old, and then the instant is taken anew; otherwise the instant
\* only grows older and the live WPM stays.  So at least one second lies
\* between two samples, and a tick without a sample shows the WPM unchanged.
C25_SampleCadence ==
    [][(phase = "Running" /\ phase' \in {"Running", "Review"} /\ ~RestartStep) =>
          /\ wpm' # wpm => SecondSinceSample /\ last_wpm_update' = Some(0)
          /\ last_wpm_update' # last_wpm_update =>
                \/ SecondSinceSample /\ last_wpm_update' = Some(0)
                \/ /\ last_wpm_update # None
                   /\ last_wpm_update' = Some(last_wpm_update[1] + 1)
                   /\ wpm' = wpm]_vars

\* C25 witness: a running session between two samples: the last sample, taken a
\* second after the clock start, is less than a second old, and the WPM shown
\* is that sample's, not what the buffers would give now.
C25_Witness ==
    /\ phase = "Running"
    /\ start_time # None
    /\ start_time[1] >= UnitsPerSec
    /\ last_wpm_update = Some(0)
    /\ wpm # Zero
    /\ wpm # LiveWpm(LiveCorrect(user_typed_words, words_to_type), start_time)

\* The rows on which the Boxes layout places the glyphs of the queue's words.
BoxesGlyphRows(size) ==
    {LayoutGlyphOrigin("Boxes", size, words_to_type, i)[2] :
        i \in 0..Len(words_to_type) - 1}

\* C26: in the Boxes layout, for every terminal size, the line count of the
\* dry-run pass is the number of lines the glyph placement uses for the same
\* queue, and every word is placed on a row strictly between the rows of the
\* top and the bottom border of the box.
C26_DryRunMatchesPlacement ==
    phase = "Running" =>
        \A size \in BoxesSizes :
            /\ NumLines(words_to_type, size[1]) = Cardinality(BoxesGlyphRows(size))
            /\ \A row \in BoxesGlyphRows(size) :
                  /\ MainBoxStartY < row
                  /\ row < MainBoxBottomY(words_to_type, size[1])

\* C26 witness: a running session, advanced and replenished, whose queue does
\* not fit on one line of the box at the smallest width: the dry run counts
\* more than one line, and the last word is placed on the last counted line.
C26_Witness ==
    /\ phase = "Running"
    /\ current_word_index > 0
    /\ Len(words_to_type) > ReplenishMargin
    /\ NumLines(words_to_type, BoxMinWidth) > 1
    /\ LayoutGlyphOrigin("Boxes", <<BoxMinWidth, 4>>, words_to_type,
                         Len(words_to_type) - 1)[2]
           = MainBoxStartY + NumLines(words_to_type, BoxMinWidth)

\* The colour the claim gives to target position k of the word at index i
\* (1-based): by the typed character at that position when there is one, else
\* default for the active word and muted for any other.
ClaimedColor(i, k) ==
    IF k \in DOMAIN user_typed_words[i]
    THEN (IF user_typed_words[i][k] = words_to_type[i][k] THEN "correct" ELSE "incorrect")
    ELSE (IF i = current_word_index + 1 THEN "default" ELSE "muted")

\* C27 (as claimed): in both layouts and for every terminal size, what the
\* frame of a Running session prints for the words is: every target character
\* at its place in its word, coloured
\* correct where a typed character exists and matches, incorrect where it
\* exists and differs, default where the active word is untyped and muted where
\* another word is untyped; and, after the active word, its typed characters
\* beyond the word's length, coloured incorrect.
C27_GlyphColours ==
    phase = "Running" =>
        \A theme \in LayoutThemes : \A size \in LayoutSizes(theme) :
            LET origin(i) == LayoutGlyphOrigin(theme, size, words_to_type, i - 1)
                active == current_word_index + 1
                targets ==
                    UNION {{[x |-> origin(i)[1] + k - 1, y |-> origin(i)[2],
                             char |-> words_to_type[i][k],
                             color |-> ClaimedColor(i, k)] :
                               k \in DOMAIN words_to_type[i]} :
                           i \in DOMAIN words_to_type}
                beyond ==
                    {[x |-> origin(active)[1] + k - 1, y |-> origin(active)[2],
                      char |-> user_typed_words[active][k], color |-> "incorrect"] :
                        k \in {n \in DOMAIN user_typed_words[active] :
                                  n > Len(words_to_type[active])}}
            IN  FramePrints(theme, size, words_to_type, user_typed_words,
                            current_word_index) = targets \cup beyond

\* C28: in Words mode the cursor is below target_length in every state of a
\* session, so the completion predicate is false; a Words-mode session that
\* has reached Review left the loop by the exact match, typed on the last
\* word, by the abort key or by the interrupt, never by the predicate, by the
\* bound check after the dispatch or by a space.
C28_WordsCompletion ==
    (InSession /\ config.game_mode = "Words") =>
        /\ current_word_index < config.default_test_length
        /\ ~GameOver
        /\ phase = "Running" => ended = "none"
        /\ phase = "Review" => ended \in {"match", "abort", "interrupt"}
        /\ ended = "match" =>
              /\ current_word_index = Len(words_to_type) - 1
              /\ user_typed_words[current_word_index + 1]
                     = words_to_type[current_word_index + 1]

\* C28 witness: a Words-mode session of more than one word, completed by the
\* exact match on its last word.
C28_Witness ==
    /\ phase = "Review"
    /\ config.game_mode = "Words"
    /\ ended = "match"
    /\ current_word_index > 0
    /\ current_word_index = config.default_test_length - 1

\* C29: while a session exists every buffer at an index above the cursor is
\* empty, so the matches counted over all words, as the live sample does, are
\* the matches counted over the words at indices 0..cursor.
C29_BuffersBeyondCursorEmpty ==
    InSession =>
        /\ \A i \in DOMAIN user_typed_words :
              i > current_word_index + 1 => user_typed_words[i] = <<>>
        /\ LiveCorrect(user_typed_words, words_to_type)
               = Cardinality(MatchingPositions)

\* C29 witness: a running session with words after the cursor and typed
\* characters at and before it.
C29_Witness ==
    /\ phase = "Running"
    /\ current_word_index > 0
    /\ Len(user_typed_words) > current_word_index + 1
    /\ user_typed_words[current_word_index] # <<>>
    /\ user_typed_words[current_word_index + 1] # <<>>

\* C30: while a session exists and its clock is absent every buffer is empty,
\* so a session that ends with the clock absent has correct 0 and incorrect 0.
C30_NoClockNoCharacters ==
    (InSession /\ start_time = None) =>
        /\ AllEmpty(user_typed_words)
        /\ FinalCorrect(user_typed_words, words_to_type, current_word_index) = 0
        /\ FinalIncorrect(user_typed_words, words_to_type, current_word_index) = 0

\* C30 witness: a session that was typed in, restarted, and then aborted or
\* interrupted with its clock absent: nothing is counted, accuracy 100.
C30_Witness ==
    /\ phase = "Review"
    /\ ended \in {"abort", "interrupt"}
    /\ start_time = None
    /\ Appended = 1
    /\ typed > 0
    /\ AllEmpty(user_typed_words)
    /\ LastResult.accuracy = <<100, 1>>

\* The number of characters held in the first n buffers.
RECURSIVE CharsUpTo(_, _)
CharsUpTo(buffers, n) ==
    IF n = 0 THEN 0 ELSE CharsUpTo(buffers, n - 1) + Len(buffers[n])

\* C31 (as claimed): when a session has ended, correct + incorrect is the
\* number of characters held in the buffers at indices 0..cursor, whatever
\* part of the target words was left untyped; and a session with no incorrect
\* character has accuracy 100.
C31_CountsCoverBuffers ==
    phase = "Review" =>
        LET correct == FinalCorrect(user_typed_words, words_to_type, current_word_index)
            incorrect == FinalIncorrect(user_typed_words, words_to_type,
                                        current_word_index)
        IN  /\ correct + incorrect
                   = CharsUpTo(user_typed_words,
                               Min(current_word_index + 1, Len(words_to_type)))
            /\ incorrect = 0 => LastResult.accuracy = <<100, 1>>

\* C32: once the interrupt flag is set it stays set; a Running session then
\* leaves Running only into Review, with its result stored; Review is left only
\* by ending the outer loop, whether the key is the restart or the abort key (or
\* by a failing call); and nothing follows the end of the outer loop, so no new
\* session is started.
C32_NoSessionAfterInterrupt ==
    [][~running =>
          /\ ~running'
          /\ (phase = "Running" /\ phase' # "Running") =>
                /\ phase' = "Review"
                /\ OneAppended(results, results', ResultKey(config))
          /\ phase = "Review" => phase' \in {"Review", "Exited", "Failed"}
          /\ (phase = "Review" /\ (ReviewTab \/ ReviewEsc)) => phase' = "Exited"
          /\ phase \in {"Exited", "Failed"} => phase' = phase]_vars

\* C32 witness: a session in which characters were typed, interrupted while
\* Running, with its result stored and Review waiting for a key.
C32_Witness ==
    /\ phase = "Review"
    /\ ~running
    /\ ended = "interrupt"
    /\ Appended = 1
    /\ typed > 0

\* C33 (as claimed): for every terminal width and height from 1 up, the
\* geometry of a frame is computed without leaving the unsigned 16-bit range:
\* in the Boxes layout box_width is at most width, so (width - box_width) / 2
\* does not underflow, and in the Default layout the row of the top bar,
\* height / 2 - 2, does not underflow.
C33_GeometryInRange ==
    phase = "Running" =>
        \A size \in TerminalSizes :
            /\ BoxWidth(size[1]) <= size[1]
            /\ \A o \in BoxStartXOutcomes(size[1]) : o.kind = "exact"
            /\ \A o \in TopBarYOutcomes(size[2]) : o.kind = "exact"

====
